---- MODULE Spec2Model ----
(***************************************************************************)
(* A model of CSpxSynthesizer (source/core/tts/synthesizer.cpp): the       *)
(* request queue that serialises Speak / SpeakAsync / StartSpeaking /      *)
(* StartSpeakingAsync, the result events fired along a request's           *)
(* lifecycle, the Write callback of the adapter, the per-kind subscriber  *)
(* lists with their Connect / Disconnect / Fire operations, the creation   *)
(* of the adapter by Init, and Term / the destructor.                      *)
(***************************************************************************)
EXTENDS Integers, Sequences, FiniteSets, TLC

\* ------------------------------------------------------------------ bounds
\* Number of requests submitted to one synthesizer.
NumReq == 2
\* Largest number of Write calls the adapter makes during one Speak.
MaxChunks == 1

\* Number of Write calls followed in the byte accounting.
MaxWrites == 3
\* Largest size of one audio chunk handed to Write.
MaxChunkSize == 3
\* Number of subscriber identities (the void* object of Connect / Disconnect).
NumObjects == 2
\* Number of distinct callback functions.
NumCallbacks == 2
\* Number of Connect / Disconnect calls followed.
MaxOps == 3
\* The same two bounds where Connect / Disconnect race with the copy of a
\* fire, followed with one callback per identity.
NumRaceObjects == 3
MaxRaceOps == 5
\* Number of threads that enter Init / EnsureTtsEngineAdapter.
NumThreads == 2
\* Number of explicit Term calls followed before the destructor runs.
MaxTermCalls == 1

Req == 1..NumReq
NoReq == 0

\* The four calling conventions (lines 80, 115, 126, 171).
Conventions == {"Speak", "SpeakAsync", "StartSpeaking", "StartSpeakingAsync"}

\* The four result events, each with its own list and mutex:
\* SynthesisStarted, Synthesizing, SynthesisCompleted, SynthesisCanceled.
Kinds == {"Started", "Synthesizing", "Completed", "Canceled"}
Objects == 1..NumObjects
RaceObjects == 1..NumRaceObjects
NoObject == 0
Callbacks == 1..NumCallbacks
\* The null callback of Disconnect: disconnect all.
NullCallback == 0

\* The adapter classes InitializeTtsEngineAdapter creates, in the order of its
\* four if-statements (lines 599-620).
Variants == <<"Rest", "Usp", "Mock", "Local">>
VariantSet == {Variants[i] : i \in 1..Len(Variants)}
\* url.protocol of the parsed endpoint; "absent" when the endpoint is empty.
Schemes == {"absent", "HTTP", "WebSocket", "other"}
Threads == 1..NumThreads
\* The site's properties before they are set.
Unset == [scheme |-> "unset", rest |-> FALSE, usp |-> FALSE, mock |-> FALSE, local |-> FALSE]

\* ResultReason values that reach FireResultEvent.
AdapterReasons == {"SynthesizingAudioCompleted", "Canceled"}

VARIABLES
    conv,                   \* conv[r]: calling convention of request r ("none" before the call)
    pc,                     \* pc[r]: position of the thread driving r's lifecycle
    apiReturned,            \* apiReturned[r]: the user-facing call has returned to its caller
    ssFrame,                \* ssFrame[r]: the StartSpeaking frame of r: "none", "tail" (lines 163-168), "returned"
    m_requestQueue,         \* std::queue<std::wstring> of request ids
    m_requestWaitingMutex,  \* holder of m_requestWaitingMutex, NoReq when free
    pushOrder,              \* history: ids in the order PushRequestIntoQueue appended them
    startedOrder,           \* history: ids in the order their SynthesisStarted event fired
    fired,                  \* fired[r]: the event kinds fired for r, in order
    adapterReason,          \* adapterReason[r]: reason of the result m_ttsAdapter->Speak returned
    parent,                 \* parent[r]: the request whose subscriber callback made the call of r, NoReq for a call made from outside
    \* Write's byte accounting
    wpc,                    \* position inside Write: "idle", or "fired" (event fired, sink not yet written)
    chunk,                  \* size of the chunk of the Write call in progress
    writes,                 \* number of Write calls made
    notifiedBytes,          \* history: bytes announced through Synthesizing events
    sinkBytes,              \* history: bytes accepted by m_audioOutput->Write
    sinkResult,             \* value the sink's Write returned last
    writeResult,            \* value Write returned last
    \* the subscriber lists and one firing thread
    busKind,                \* the kind whose Connect / Disconnect / Fire calls the behaviour follows, "none" before the first
    events,                 \* events[k]: the std::list of (object, signal) pairs of kind k, front first
    ops,                    \* number of Connect / Disconnect calls made
    firePc,                 \* "idle", "copy" (copying the list argument), "signal", "done", "crashed"
    fireKind,               \* kind of the fire in progress
    cursor,                 \* identity of the node the copy reads next, NoObject at end
    cursorStale,            \* the node under the cursor was removed from the list
    copy,                   \* the by-value copy: sequence of [object, live]
    sigPos,                 \* number of entries of the copy already signalled
    invoked,                \* history: <<object, callback>> pairs invoked by this fire
    seen,                   \* history: contents the list had while it was being copied
    quiet,                  \* history: no Connect / Disconnect touched the kind since the fire began
    disconnectsMet,         \* history: what the Disconnect calls made have met: "noEntry", "notConnected", "connected"
    \* the adapter handle, the output and the object's lifetime
    properties,             \* the endpoint's scheme and the four UseTtsEngine flags of the site, Unset before they are set
    m_ttsAdapter,           \* "null", or the variant of the adapter the shared_ptr holds
    epc,                    \* epc[t]: position of thread t inside Init: "idle", "ensure", "if", "new", "check", "done", "threw"
    stage,                  \* stage[t]: the variant whose if-statement thread t is at, "none" outside them
    attempts,               \* history: attempts[t], the variants thread t called SpxCreateObjectWithSite for, in order
    created,                \* history: number of adapter instances created
    m_audioOutput,          \* "null", "open" or "closed"
    adapterAtSpeak,         \* history: "none", or what m_ttsAdapter was ("null" / "present") when Speak last called m_ttsAdapter->Speak
    adapterTerms,           \* history: number of m_ttsAdapter->Term() calls
    termCalls,              \* number of explicit Term calls made
    life,                   \* "alive", or "destroyed" once the destructor has run
    failure                 \* "none", or the call that failed on a null pointer or a racing access

qvars == <<conv, pc, apiReturned, ssFrame, m_requestQueue, m_requestWaitingMutex,
           pushOrder, startedOrder, fired, adapterReason, parent>>
wvars == <<wpc, chunk, writes, notifiedBytes, sinkBytes, sinkResult, writeResult>>
bvars == <<busKind, events, ops, firePc, fireKind, cursor, cursorStale, copy, sigPos, invoked,
           seen, quiet, disconnectsMet>>
avars == <<properties, m_ttsAdapter, epc, stage, attempts, created, m_audioOutput,
           adapterAtSpeak, adapterTerms, termCalls, life, failure>>
vars == <<qvars, wvars, bvars, avars>>

\* ------------------------------------------------------------ pure helpers
\* The mutants of the helpers below stand right before them.

\* A queue that admits a request as soon as it is anywhere in the queue.
AnywhereInQueue(q, r) == \E i \in 1..Len(q) : q[i] = r

\* A predicate that compares the id with the back of the queue.
InBackOfQueue(q, r) == Len(q) > 0 /\ q[Len(q)] = r

\* lines 481-483: the wait predicate, m_requestQueue.front() == requestId.
InFrontOfQueue(q, r) == Len(q) > 0 /\ Head(q) = r

\* A push that puts the id at the head of the queue.
EmplaceFront(q, r) == <<r>> \o q

\* line 465: m_requestQueue.emplace(requestId).
Emplace(q, r) == Append(q, r)

\* A pop that empties the queue.
PopAll(q) == <<>>

\* A pop that removes the back of the queue.
PopBack(q) == SubSeq(q, 1, Len(q) - 1)

\* line 490: m_requestQueue.pop().
Pop(q) == Tail(q)

\* A dispatch that sends every terminal result to the Completed subscribers.
AlwaysCompletedKind(reason) ==
    CASE reason = "SynthesizingAudioStarted" -> "Started"
      [] reason = "SynthesizingAudio" -> "Synthesizing"
      [] reason = "SynthesizingAudioCompleted" -> "Completed"
      [] reason = "Canceled" -> "Completed"
      [] OTHER -> "none"

\* lines 515-536: the switch of FireResultEvent, reason -> subscriber kind.
EventKindOf(reason) ==
    CASE reason = "SynthesizingAudioStarted" -> "Started"
      [] reason = "SynthesizingAudio" -> "Synthesizing"
      [] reason = "SynthesizingAudioCompleted" -> "Completed"
      [] reason = "Canceled" -> "Canceled"
      [] OTHER -> "none"

IsPrefix(s, t) == Len(s) <= Len(t) /\ \A i \in 1..Len(s) : s[i] = t[i]

Count(s, k) == Cardinality({i \in 1..Len(s) : s[i] = k})

\* Positions of a lifecycle thread between its return from
\* WaitUntilRequestInFrontOfQueue and its PopRequestFromQueue.
ActivePcs == {"admitted", "inStarted", "inAdapter", "inSynthesizing", "drain", "inTerminal"}
\* Positions in which subscriber callbacks of the request are executing.
FiringPcs == {"inStarted", "inSynthesizing", "inTerminal"}
\* Positions inside WaitUntilRequestInFrontOfQueue.
WaitingPcs == {"lock", "pred", "toBlock", "blocked", "woken"}

Active(r) == pc[r] \in ActivePcs

\* ------------------------------------------------------------------- Init
QInit ==
    /\ conv = [r \in Req |-> "none"]
    /\ pc = [r \in Req |-> "idle"]
    /\ apiReturned = [r \in Req |-> FALSE]
    /\ ssFrame = [r \in Req |-> "none"]
    /\ m_requestQueue = <<>>
    /\ m_requestWaitingMutex = NoReq
    /\ pushOrder = <<>>
    /\ startedOrder = <<>>
    /\ fired = [r \in Req |-> <<>>]
    /\ adapterReason = [r \in Req |-> "none"]
    /\ parent = [r \in Req |-> NoReq]

WInit ==
    /\ wpc = "idle"
    /\ chunk = 0
    /\ writes = 0
    /\ notifiedBytes = 0
    /\ sinkBytes = 0
    /\ sinkResult = 0
    /\ writeResult = 0

\* The four lists are empty after construction and nothing is firing.  The
\* four kinds share no state (each has its list and its mutex), so a
\* behaviour follows the calls made on one of them: the kind of its first call.
BInit ==
    /\ busKind = "none"
    /\ events = [k \in Kinds |-> <<>>]
    /\ ops = 0
    /\ firePc = "idle"
    /\ fireKind = "none"
    /\ cursor = NoObject
    /\ cursorStale = FALSE
    /\ copy = <<>>
    /\ sigPos = 0
    /\ invoked = {}
    /\ seen = {}
    /\ quiet = TRUE
    /\ disconnectsMet = {}

\* lines 26-30: the constructor sets m_fEnabled only; both shared_ptr members
\* are null.
AInit ==
    /\ properties = Unset
    /\ m_ttsAdapter = "null"
    /\ epc = [t \in Threads |-> "idle"]
    /\ stage = [t \in Threads |-> "none"]
    /\ attempts = [t \in Threads |-> <<>>]
    /\ created = 0
    /\ m_audioOutput = "null"
    /\ adapterAtSpeak = "none"
    /\ adapterTerms = 0
    /\ termCalls = 0
    /\ life = "alive"
    /\ failure = "none"

Init == QInit /\ WInit /\ BInit /\ AInit

\* ---------------------------------------------------------------- actions
Asynchronous == {"SpeakAsync", "StartSpeakingAsync"}
StartSpeakingLike == {"StartSpeaking", "StartSpeakingAsync"}

\* Callbacks that would run on a thread of their own.
CallbacksDetached(r) == TRUE

\* lines 542-555: FireSynthesisEvent invokes the subscriber callbacks with
\* pevent->Signal on the thread that fires, one after the other, and returns
\* when the last has returned: every call a callback of r has made has
\* returned to it.
CallbacksReturned(r) == \A n \in Req : parent[n] = r => apiReturned[n]

\* lines 80-84, 115-124, 126-130, 171-180: a caller invokes one of the four
\* conventions for request r.  SpeakAsync and StartSpeakingAsync launch the
\* body with std::async and return their CSpxAsyncOp at once; Speak and
\* StartSpeaking run the body on the calling thread.  Requests are numbered in
\* the order their calls are made.
Call(r, c) ==
    /\ pc[r] = "idle"
    /\ \A o \in Req : o < r => conv[o] # "none"
    /\ conv' = [conv EXCEPT ![r] = c]
    /\ pc' = [pc EXCEPT ![r] = "push"]
    /\ apiReturned' = [apiReturned EXCEPT ![r] = (c \in Asynchronous)]
    /\ UNCHANGED <<ssFrame, m_requestQueue, m_requestWaitingMutex, pushOrder,
                   startedOrder, fired, adapterReason, parent, wvars, bvars, avars>>

\* lines 462-467: PushRequestIntoQueue, one critical section of m_queueOperationMutex.
PushRequestIntoQueue(r) ==
    /\ pc[r] = "push"
    /\ m_requestQueue' = Emplace(m_requestQueue, r)
    /\ pushOrder' = Append(pushOrder, r)
    /\ pc' = [pc EXCEPT ![r] = "lock"]
    /\ UNCHANGED <<conv, apiReturned, ssFrame, m_requestWaitingMutex, startedOrder,
                   fired, adapterReason, parent, wvars, bvars, avars>>

\* line 471: std::unique_lock<std::mutex> lock(m_requestWaitingMutex).
WaitLock(r) ==
    /\ pc[r] = "lock"
    /\ m_requestWaitingMutex = NoReq
    /\ m_requestWaitingMutex' = r
    /\ pc' = [pc EXCEPT ![r] = "pred"]
    /\ UNCHANGED <<conv, apiReturned, ssFrame, m_requestQueue, pushOrder, startedOrder,
                   fired, adapterReason, parent, wvars, bvars, avars>>

\* lines 481-485: one evaluation of the wait predicate, made holding
\* m_requestWaitingMutex, inside a critical section of m_queueOperationMutex.
\* True: wait returns and the lock's destructor frees m_requestWaitingMutex.
\* False: the thread goes on to block on m_cv, still holding the mutex.
WaitPredicate(r) ==
    /\ pc[r] = "pred"
    /\ IF InFrontOfQueue(m_requestQueue, r)
       THEN /\ pc' = [pc EXCEPT ![r] = "admitted"]
            /\ m_requestWaitingMutex' = NoReq
       ELSE /\ pc' = [pc EXCEPT ![r] = "toBlock"]
            /\ UNCHANGED m_requestWaitingMutex
    /\ UNCHANGED <<conv, apiReturned, ssFrame, m_requestQueue, pushOrder, startedOrder,
                   fired, adapterReason, parent, wvars, bvars, avars>>

\* line 481: m_cv.wait(lock): atomically frees m_requestWaitingMutex and
\* joins the waiters of m_cv.
WaitBlock(r) ==
    /\ pc[r] = "toBlock"
    /\ pc' = [pc EXCEPT ![r] = "blocked"]
    /\ m_requestWaitingMutex' = NoReq
    /\ UNCHANGED <<conv, apiReturned, ssFrame, m_requestQueue, pushOrder, startedOrder,
                   fired, adapterReason, parent, wvars, bvars, avars>>

\* line 481: a woken waiter takes m_requestWaitingMutex again before it
\* re-evaluates the predicate.
WaitReacquire(r) ==
    /\ pc[r] = "woken"
    /\ m_requestWaitingMutex = NoReq
    /\ m_requestWaitingMutex' = r
    /\ pc' = [pc EXCEPT ![r] = "pred"]
    /\ UNCHANGED <<conv, apiReturned, ssFrame, m_requestQueue, pushOrder, startedOrder,
                   fired, adapterReason, parent, wvars, bvars, avars>>

\* lines 474, 481: a wake of m_cv without a notification: a spurious wakeup
\* of wait, or the 100 ms timeout of wait_for in the _DEBUG build.
SpuriousWake(r) ==
    /\ pc[r] = "blocked"
    /\ pc' = [pc EXCEPT ![r] = "woken"]
    /\ UNCHANGED <<conv, apiReturned, ssFrame, m_requestQueue, m_requestWaitingMutex,
                   pushOrder, startedOrder, fired, adapterReason, parent, wvars, bvars, avars>>

\* A fire of a result with the given reason for r (lines 513-537): the kind
\* of event it dispatches to is appended to r's events; reasons outside the
\* switch fire nothing.
FiredWith(r, reason) ==
    IF EventKindOf(reason) = "none"
    THEN fired
    ELSE [fired EXCEPT ![r] = Append(@, EventKindOf(reason))]

\* lines 92-93, 138-139: CreateResult(SynthesizingAudioStarted) and
\* FireResultEvent; the Started callbacks run until the thread's next step.
FireStarted(r) ==
    /\ pc[r] = "admitted"
    /\ fired' = FiredWith(r, "SynthesizingAudioStarted")
    /\ startedOrder' = Append(startedOrder, r)
    /\ pc' = [pc EXCEPT ![r] = "inStarted"]
    /\ UNCHANGED <<conv, apiReturned, ssFrame, m_requestQueue, m_requestWaitingMutex,
                   pushOrder, adapterReason, parent, wvars, bvars, avars>>

\* line 96 (Speak): the Started callbacks have returned and the thread calls
\* m_ttsAdapter->Speak.  lines 141-144 (StartSpeaking): std::async launches
\* the background task, which calls m_ttsAdapter->Speak, and the calling
\* thread goes on to lines 163-168.
EnterAdapter(r) ==
    /\ pc[r] = "inStarted"
    /\ CallbacksReturned(r)
    /\ pc' = [pc EXCEPT ![r] = "inAdapter"]
    /\ ssFrame' = [ssFrame EXCEPT ![r] = IF conv[r] \in StartSpeakingLike THEN "tail" ELSE @]
    /\ UNCHANGED <<conv, apiReturned, m_requestQueue, m_requestWaitingMutex, pushOrder,
                   startedOrder, fired, adapterReason, parent, wvars, bvars, avars>>

\* lines 163-168: StartSpeaking attaches the future to the Started result and
\* returns it.  Called directly, that is the return to the user; called from
\* StartSpeakingAsync's task (line 176), the user's call returned before.
StartSpeakingReturn(r) ==
    /\ ssFrame[r] = "tail"
    /\ ssFrame' = [ssFrame EXCEPT ![r] = "returned"]
    /\ apiReturned' = [apiReturned EXCEPT ![r] = TRUE]
    /\ UNCHANGED <<conv, pc, m_requestQueue, m_requestWaitingMutex, pushOrder,
                   startedOrder, fired, adapterReason, parent, wvars, bvars, avars>>

\* lines 440-442: the adapter, inside its Speak, calls Write: the
\* Synthesizing event is created and fired; its callbacks run until the
\* thread's next step.
WriteFire(r) ==
    /\ pc[r] = "inAdapter"
    /\ Count(fired[r], "Synthesizing") < MaxChunks
    /\ fired' = FiredWith(r, "SynthesizingAudio")
    /\ pc' = [pc EXCEPT ![r] = "inSynthesizing"]
    /\ UNCHANGED <<conv, apiReturned, ssFrame, m_requestQueue, m_requestWaitingMutex,
                   pushOrder, startedOrder, adapterReason, parent, wvars, bvars, avars>>

\* line 445: the Synthesizing callbacks have returned; m_audioOutput->Write
\* takes the chunk and Write returns to the adapter.
WriteSink(r) ==
    /\ pc[r] = "inSynthesizing"
    /\ CallbacksReturned(r)
    /\ pc' = [pc EXCEPT ![r] = "inAdapter"]
    /\ UNCHANGED <<conv, apiReturned, ssFrame, m_requestQueue, m_requestWaitingMutex,
                   pushOrder, startedOrder, fired, adapterReason, parent, wvars, bvars, avars>>

\* lines 96-99, 144-147: m_ttsAdapter->Speak returns its result, tagged
\* Completed or Canceled, and the thread calls m_audioOutput->WaitUntilDone.
AdapterReturn(r, reason) ==
    /\ pc[r] = "inAdapter"
    /\ adapterReason' = [adapterReason EXCEPT ![r] = reason]
    /\ pc' = [pc EXCEPT ![r] = "drain"]
    /\ UNCHANGED <<conv, apiReturned, ssFrame, m_requestQueue, m_requestWaitingMutex,
                   pushOrder, startedOrder, fired, parent, wvars, bvars, avars>>

\* lines 99-107, 147-155: WaitUntilDone returns and FireResultEvent fires the
\* adapter's result; the terminal callbacks run until the thread's next step.
FireTerminal(r) ==
    /\ pc[r] = "drain"
    /\ fired' = FiredWith(r, adapterReason[r])
    /\ pc' = [pc EXCEPT ![r] = "inTerminal"]
    /\ UNCHANGED <<conv, apiReturned, ssFrame, m_requestQueue, m_requestWaitingMutex,
                   pushOrder, startedOrder, adapterReason, parent, wvars, bvars, avars>>

\* lines 487-492, then 112 / 160: PopRequestFromQueue pops the head and
\* notifies every thread blocked on m_cv, in one critical section of
\* m_queueOperationMutex; the body then returns the terminal result, which
\* for Speak is the return to the user.
PopRequestFromQueue(r) ==
    /\ pc[r] = "inTerminal"
    /\ CallbacksReturned(r)
    /\ m_requestQueue' = Pop(m_requestQueue)
    /\ pc' = [x \in Req |-> IF x = r THEN "done"
                            ELSE IF pc[x] = "blocked" THEN "woken" ELSE pc[x]]
    /\ apiReturned' = [apiReturned EXCEPT ![r] = IF conv[r] = "Speak" THEN TRUE ELSE @]
    /\ UNCHANGED <<conv, ssFrame, m_requestWaitingMutex, pushOrder, startedOrder,
                   fired, adapterReason, parent, wvars, bvars, avars>>

\* Every step but the wake without notification.
QProgress ==
    \/ \E r \in Req, c \in Conventions : Call(r, c)
    \/ \E r \in Req : PushRequestIntoQueue(r)
    \/ \E r \in Req : WaitLock(r)
    \/ \E r \in Req : WaitPredicate(r)
    \/ \E r \in Req : WaitBlock(r)
    \/ \E r \in Req : WaitReacquire(r)
    \/ \E r \in Req : FireStarted(r)
    \/ \E r \in Req : EnterAdapter(r)
    \/ \E r \in Req : StartSpeakingReturn(r)
    \/ \E r \in Req : WriteFire(r)
    \/ \E r \in Req : WriteSink(r)
    \/ \E r \in Req, reason \in AdapterReasons : AdapterReturn(r, reason)
    \/ \E r \in Req : FireTerminal(r)
    \/ \E r \in Req : PopRequestFromQueue(r)

Next ==
    \/ QProgress
    \/ \E r \in Req : SpuriousWake(r)

Spec == Init /\ [][Next]_vars

\* The steps of the threads that drive request r: the thread running the
\* body of the call, and the caller of StartSpeaking at lines 163-168.
ThreadStep(r) ==
    \/ \E c \in Conventions : Call(r, c)
    \/ PushRequestIntoQueue(r)
    \/ WaitLock(r)
    \/ WaitPredicate(r)
    \/ WaitBlock(r)
    \/ WaitReacquire(r)
    \/ FireStarted(r)
    \/ EnterAdapter(r)
    \/ WriteFire(r)
    \/ WriteSink(r)
    \/ \E reason \in AdapterReasons : AdapterReturn(r, reason)
    \/ FireTerminal(r)
    \/ PopRequestFromQueue(r)

\* The non-debug build under a fair scheduler: every thread that can step
\* infinitely often does step (so every mutex request is eventually served,
\* the adapter's Speak and the sink's WaitUntilDone return); a wake of m_cv
\* without notification may happen but is never owed.
FairSpec ==
    /\ Init
    /\ [][Next]_vars
    /\ \A r \in Req : SF_vars(ThreadStep(r)) /\ WF_vars(StartSpeakingReturn(r))

\* lines 542-555 with 80-84, 115-130, 171-180: a subscriber callback that
\* runs for an event of request r calls one of the four conventions for
\* request n, on the thread that fires r's event.
CallInCallback(n, c, r) ==
    /\ pc[n] = "idle"
    /\ \A o \in Req : o < n => conv[o] # "none"
    /\ pc[r] \in FiringPcs
    /\ CallbacksReturned(r)
    /\ conv' = [conv EXCEPT ![n] = c]
    /\ pc' = [pc EXCEPT ![n] = "push"]
    /\ apiReturned' = [apiReturned EXCEPT ![n] = (c \in Asynchronous)]
    /\ parent' = [parent EXCEPT ![n] = r]
    /\ UNCHANGED <<ssFrame, m_requestQueue, m_requestWaitingMutex, pushOrder,
                   startedOrder, fired, adapterReason, wvars, bvars, avars>>

NNext ==
    \/ Next
    \/ \E n, r \in Req, c \in Conventions : CallInCallback(n, c, r)

\* The requests, some of them made from inside subscriber callbacks.
NSpec == Init /\ [][NNext]_vars

\* ------------------------------------------------ Write's byte accounting
\* A Write that announces an empty chunk whatever it is given.
AnnouncedNothing(size) == 0

\* line 441: CreateResult(requestId, SynthesizingAudio, buffer, size): the
\* Synthesizing result carries the whole chunk.
AnnouncedSize(size) == size

\* The sink's Write(buffer, size) accepts some of the size bytes and returns
\* how many.
SinkAccepts(size) == 0..size

\* lines 440-442 with their sizes: the adapter calls Write(buffer, size); the
\* Synthesizing event for the chunk is created and fired.
Write_FireSynthesizing(size) ==
    /\ wpc = "idle"
    /\ writes < MaxWrites
    /\ writes' = writes + 1
    /\ chunk' = size
    /\ notifiedBytes' = notifiedBytes + AnnouncedSize(size)
    /\ wpc' = "fired"
    /\ UNCHANGED <<sinkBytes, sinkResult, writeResult, qvars, bvars, avars>>

\* line 445: return m_audioOutput->Write(buffer, size).
Write_ToOutput(n) ==
    /\ wpc = "fired"
    /\ n \in SinkAccepts(chunk)
    /\ sinkBytes' = sinkBytes + n
    /\ sinkResult' = n
    /\ writeResult' = n
    /\ chunk' = 0
    /\ wpc' = "idle"
    /\ UNCHANGED <<writes, notifiedBytes, qvars, bvars, avars>>

WNext ==
    \/ \E size \in 0..MaxChunkSize : Write_FireSynthesizing(size)
    \/ \E n \in 0..MaxChunkSize : Write_ToOutput(n)

\* The Write calls of the requests, one after the other.
WSpec == Init /\ [][WNext]_vars

\* ------------------------------------------------------- subscriber lists
\* EventSignal: the callbacks connected to one signal.
SignalConnect(cbs, callback) == cbs \cup {callback}
SignalDisconnect(cbs, callback) == cbs \ {callback}
SignalDisconnectAll(cbs) == {}
SignalIsConnected(cbs) == cbs # {}

ObjectsOf(list) == {list[i].object : i \in 1..Len(list)}
\* The callbacks of the signals the list holds for an identity.
CallbacksOf(list, object) ==
    UNION {list[i].cbs : i \in {j \in 1..Len(list) : list[j].object = object}}
\* Position of a node in the list, 0 when it is not linked.
NodeIndex(list, object) ==
    IF object \in ObjectsOf(list)
    THEN CHOOSE i \in 1..Len(list) : list[i].object = object
    ELSE 0

\* A lookup that never finds the identity.
FindNothing(list, object) == 0

\* lines 193-197, 289-293: the scan from begin() for the first pair whose
\* first is the object; 0 stands for end().
FindEntry(list, object) ==
    IF \E i \in 1..Len(list) : list[i].object = object
    THEN CHOOSE i \in 1..Len(list) :
            /\ list[i].object = object
            /\ \A j \in 1..(i - 1) : list[j].object # object
    ELSE 0

\* A Disconnect that removes the pair it finds, whatever the callback.
ListAfterDisconnectDropping(list, object, callback) ==
    SelectSeq(list, LAMBDA e : e.object # object)

\* A Connect that always puts a new pair at the front.
ListAfterConnectNewEntry(list, object, callback) ==
    <<[object |-> object, cbs |-> SignalConnect({}, callback)]>> \o list

\* lines 199-208: the list after Connect.
ListAfterConnect(list, object, callback) ==
    LET i == FindEntry(list, object) IN
    IF i # 0
    THEN [list EXCEPT ![i].cbs = SignalConnect(@, callback)]
    ELSE <<[object |-> object, cbs |-> SignalConnect({}, callback)]>> \o list

\* lines 295-310: the list after Disconnect; std::list::remove drops every
\* pair equal to the one found.
ListAfterDisconnect(list, object, callback) ==
    LET i == FindEntry(list, object) IN
    IF i = 0
    THEN list
    ELSE LET left == IF callback # NullCallback
                     THEN SignalDisconnect(list[i].cbs, callback)
                     ELSE SignalDisconnectAll(list[i].cbs)
             entry == [object |-> object, cbs |-> left]
             updated == [list EXCEPT ![i] = entry]
         IN  IF ~SignalIsConnected(left)
             THEN SelectSeq(updated, LAMBDA e : e # entry)
             ELSE updated

\* The pairs a list holds for an identity.
EntriesOf(list, object) == SelectSeq(list, LAMBDA e : e.object = object)

\* lines 295-297: what a Disconnect call meets: no pair for the object, a
\* pair whose signal does not hold the callback, or a pair it disconnects
\* from (the callback, or with the null callback all callbacks).
DisconnectMeets(list, object, callback) ==
    LET i == FindEntry(list, object) IN
    IF i = 0 THEN "noEntry"
    ELSE IF callback # NullCallback /\ callback \notin list[i].cbs THEN "notConnected"
    ELSE "connected"

FireTouches(k) == firePc \in {"copy", "signal"} /\ fireKind = k

\* lines 187-209, 211-233, 235-257, 259-281: Connect...Callback of kind k,
\* the whole body under the kind's mutex.
ConnectCallback(k, object, callback) ==
    /\ busKind \in {"none", k}
    /\ busKind' = k
    /\ ops' = ops + 1
    /\ events' = [events EXCEPT ![k] = ListAfterConnect(@, object, callback)]
    /\ seen' = IF firePc = "copy" /\ fireKind = k
               THEN seen \cup {ObjectsOf(events'[k])} ELSE seen
    /\ quiet' = IF fireKind = k /\ firePc # "idle" THEN FALSE ELSE quiet
    /\ UNCHANGED <<firePc, fireKind, cursor, cursorStale, copy, sigPos, invoked,
                   disconnectsMet, qvars, wvars, avars>>

\* lines 283-311, 313-341, 343-371, 373-401: Disconnect...Callback of kind
\* k, the whole body under the kind's mutex.  A fire in progress on the kind
\* loses the node under its cursor when that node is removed, and the
\* signals of removed pairs it has copied are left without callbacks.
DisconnectCallback(k, object, callback) ==
    /\ busKind \in {"none", k}
    /\ busKind' = k
    /\ ops' = ops + 1
    /\ events' = [events EXCEPT ![k] = ListAfterDisconnect(@, object, callback)]
    /\ seen' = IF firePc = "copy" /\ fireKind = k
               THEN seen \cup {ObjectsOf(events'[k])} ELSE seen
    /\ quiet' = IF fireKind = k /\ firePc # "idle" THEN FALSE ELSE quiet
    /\ LET removed == object \in ObjectsOf(events[k]) /\ object \notin ObjectsOf(events'[k])
       IN  /\ cursorStale' = (cursorStale \/
                               (removed /\ firePc = "copy" /\ fireKind = k /\ cursor = object))
           /\ copy' = IF removed /\ FireTouches(k)
                      THEN [i \in 1..Len(copy) |->
                               IF copy[i].object = object
                               THEN [copy[i] EXCEPT !.live = FALSE] ELSE copy[i]]
                      ELSE copy
    /\ disconnectsMet' = disconnectsMet \cup {DisconnectMeets(events[k], object, callback)}
    /\ UNCHANGED <<firePc, fireKind, cursor, sigPos, invoked, qvars, wvars, avars>>

\* lines 403-425, 539-541: Fire... of kind k calls FireSynthesisEvent, whose
\* list parameter is taken by value: the copy starts at begin(), and the
\* kind's mutex is not taken.
FireBegin(k) ==
    /\ busKind \in {"none", k}
    /\ busKind' = k
    /\ firePc \in {"idle", "done"}
    /\ firePc' = "copy"
    /\ fireKind' = k
    /\ cursor' = IF Len(events[k]) > 0 THEN events[k][1].object ELSE NoObject
    /\ cursorStale' = FALSE
    /\ copy' = <<>>
    /\ sigPos' = 0
    /\ invoked' = {}
    /\ seen' = {ObjectsOf(events[k])}
    /\ quiet' = TRUE
    /\ UNCHANGED <<events, ops, disconnectsMet, qvars, wvars, avars>>

\* line 539: the list's copy constructor copies the node under its cursor
\* and moves to that node's successor.
CopyNode ==
    /\ firePc = "copy"
    /\ cursor # NoObject
    /\ ~cursorStale
    /\ LET list == events[fireKind]
           i == NodeIndex(list, cursor)
       IN  /\ copy' = Append(copy, [object |-> cursor, live |-> TRUE])
           /\ cursor' = IF i < Len(list) THEN list[i + 1].object ELSE NoObject
    /\ UNCHANGED <<busKind, events, ops, firePc, fireKind, cursorStale, sigPos, invoked, seen,
                   quiet, disconnectsMet, qvars, wvars, avars>>

\* line 539: the copy constructor reads a node that Disconnect has removed
\* and freed.  The read is undefined: the fire crashes, or it takes what the
\* freed node held and goes on from any node or from the end.
CopyFreedNode(crash, next) ==
    /\ firePc = "copy"
    /\ cursorStale
    /\ next \in ObjectsOf(events[fireKind]) \cup {NoObject}
    /\ IF crash
       THEN /\ firePc' = "crashed"
            /\ UNCHANGED <<cursor, cursorStale, copy>>
       ELSE /\ copy' = Append(copy, [object |-> cursor, live |-> FALSE])
            /\ cursor' = next
            /\ cursorStale' = FALSE
            /\ UNCHANGED firePc
    /\ UNCHANGED <<busKind, events, ops, fireKind, sigPos, invoked, seen, quiet, disconnectsMet, qvars, wvars, avars>>

\* lines 539-541: the copy has reached end(); the iteration starts.
CopyEnd ==
    /\ firePc = "copy"
    /\ cursor = NoObject
    /\ ~cursorStale
    /\ firePc' = "signal"
    /\ UNCHANGED <<busKind, events, ops, fireKind, cursor, cursorStale, copy, sigPos, invoked,
                   seen, quiet, disconnectsMet, qvars, wvars, avars>>

\* lines 542-555: one turn of the loop: pevent->Signal invokes the callbacks
\* the pair's signal holds now; the signal is the one the list's pair points
\* to unless that pair has been removed.
SignalEntry ==
    /\ firePc = "signal"
    /\ sigPos < Len(copy)
    /\ LET e == copy[sigPos + 1]
           cbs == IF e.live THEN CallbacksOf(events[fireKind], e.object) ELSE {}
       IN  invoked' = invoked \cup {<<e.object, c>> : c \in cbs}
    /\ sigPos' = sigPos + 1
    /\ UNCHANGED <<busKind, events, ops, firePc, fireKind, cursor, cursorStale, copy, seen,
                   quiet, disconnectsMet, qvars, wvars, avars>>

\* line 556: the loop has reached the end of the copy.
FireEnd ==
    /\ firePc = "signal"
    /\ sigPos = Len(copy)
    /\ firePc' = "done"
    /\ UNCHANGED <<busKind, events, ops, fireKind, cursor, cursorStale, copy, sigPos, invoked,
                   seen, quiet, disconnectsMet, qvars, wvars, avars>>

\* The steps of a fire.
FireStep ==
    \/ \E k \in Kinds : FireBegin(k)
    \/ CopyNode
    \/ \E crash \in BOOLEAN, next \in RaceObjects \cup {NoObject} : CopyFreedNode(crash, next)
    \/ CopyEnd
    \/ SignalEntry
    \/ FireEnd

BNext ==
    \/ /\ ops < MaxOps
       /\ \E k \in Kinds, o \in Objects, c \in Callbacks : ConnectCallback(k, o, c)
    \/ /\ ops < MaxOps
       /\ \E k \in Kinds, o \in Objects, c \in Callbacks \cup {NullCallback} :
             DisconnectCallback(k, o, c)
    \/ FireStep

\* Connect and Disconnect calls from any threads, and the fires of the one
\* active request.
BSpec == Init /\ [][BNext]_vars

TNext ==
    \/ /\ ops < MaxOps
       /\ \E k \in Kinds, o \in Objects, c \in Callbacks : ConnectCallback(k, o, c)
    \/ /\ ops < MaxOps
       /\ \E k \in Kinds, o \in Objects, c \in Callbacks \cup {NullCallback} :
             DisconnectCallback(k, o, c)

\* Connect and Disconnect calls alone, with no fire in progress.
TSpec == Init /\ [][TNext]_vars

RaceNext ==
    \/ /\ ops < MaxRaceOps
       /\ \E k \in Kinds, o \in RaceObjects : ConnectCallback(k, o, 1)
    \/ /\ ops < MaxRaceOps
       /\ \E k \in Kinds, o \in RaceObjects, c \in {1, NullCallback} :
             DisconnectCallback(k, o, c)
    \/ FireStep

\* The same calls over more identities, each with one callback.
RaceSpec == Init /\ [][RaceNext]_vars

\* ------------------------------------------------- the adapter handle
\* A flag computation without the default of lines 593-596.
TryFlagsNoDefault(p, v) ==
    CASE v = "Rest" -> (p.scheme = "HTTP" \/ p.rest)
      [] v = "Usp" -> (p.scheme = "WebSocket" \/ p.usp)
      [] v = "Mock" -> p.mock
      [] v = "Local" -> p.local

\* lines 569-596: the locals tryRest, tryUsp, tryMock and tryLocal of
\* InitializeTtsEngineAdapter, from the endpoint's protocol and the flags;
\* tryRest is set when none of the four is.
TryFlags(p, v) ==
    LET tryRest == p.scheme = "HTTP" \/ p.rest
        tryUsp == p.scheme = "WebSocket" \/ p.usp
        tryMock == p.mock
        tryLocal == p.local
    IN  CASE v = "Rest" -> (tryRest \/ (~tryMock /\ ~tryRest /\ ~tryUsp /\ ~tryLocal))
          [] v = "Usp" -> tryUsp
          [] v = "Mock" -> tryMock
          [] v = "Local" -> tryLocal

\* Position of a variant in the order of the if-statements.
StageIndex(v) == CHOOSE i \in 1..Len(Variants) : Variants[i] = v

\* Threads inside EnsureTtsEngineAdapter / InitializeTtsEngineAdapter.
InInit == {"ensure", "if", "new", "check"}
\* No Init call is in progress.
NoInitRunning == \A t \in Threads : epc[t] \notin InInit
Usable == life = "alive" /\ failure = "none"

\* lines 569, 585-592: the values GetStringValue will return: the
\* endpoint's protocol and the four flags, fixed by the site before Init.
SetProperties(scheme, rest, usp, mock, local) ==
    /\ properties = Unset
    /\ Usable
    /\ properties' = [scheme |-> scheme, rest |-> rest, usp |-> usp,
                      mock |-> mock, local |-> local]
    /\ UNCHANGED <<m_ttsAdapter, epc, stage, attempts, created, m_audioOutput,
                   adapterAtSpeak, adapterTerms, termCalls, life, failure,
                   qvars, wvars, bvars>>

\* lines 39-49: thread t calls Init, which reaches EnsureTtsEngineAdapter.
CallInit(t) ==
    /\ epc[t] = "idle"
    /\ properties # Unset
    /\ Usable
    /\ epc' = [epc EXCEPT ![t] = "ensure"]
    /\ UNCHANGED <<properties, m_ttsAdapter, stage, attempts, created, m_audioOutput,
                   adapterAtSpeak, adapterTerms, termCalls, life, failure,
                   qvars, wvars, bvars>>

\* lines 558-564: the test m_ttsAdapter == nullptr, made without a lock;
\* when it holds the thread enters InitializeTtsEngineAdapter and reaches
\* its first if-statement.
EnsureTtsEngineAdapter(t) ==
    /\ epc[t] = "ensure"
    /\ failure = "none"
    /\ IF m_ttsAdapter = "null"
       THEN /\ epc' = [epc EXCEPT ![t] = "if"]
            /\ stage' = [stage EXCEPT ![t] = Variants[1]]
       ELSE /\ epc' = [epc EXCEPT ![t] = "done"]
            /\ UNCHANGED stage
    /\ UNCHANGED <<properties, m_ttsAdapter, attempts, created, m_audioOutput,
                   adapterAtSpeak, adapterTerms, termCalls, life, failure,
                   qvars, wvars, bvars>>

\* lines 599, 605, 611, 617: the condition m_ttsAdapter == nullptr && try...
\* of the if-statement the thread is at.  True: the thread calls
\* SpxCreateObjectWithSite for the variant.  False: it goes to the next
\* if-statement, or to line 624 after the last.
InitializeTtsEngineAdapter_If(t) ==
    /\ epc[t] = "if"
    /\ failure = "none"
    /\ LET v == stage[t]
           i == StageIndex(v)
       IN  IF m_ttsAdapter = "null" /\ TryFlags(properties, v)
           THEN /\ epc' = [epc EXCEPT ![t] = "new"]
                /\ attempts' = [attempts EXCEPT ![t] = Append(@, v)]
                /\ UNCHANGED stage
           ELSE /\ epc' = [epc EXCEPT ![t] = IF i < Len(Variants) THEN "if" ELSE "check"]
                /\ stage' = [stage EXCEPT ![t] = IF i < Len(Variants) THEN Variants[i + 1] ELSE "none"]
                /\ UNCHANGED attempts
    /\ UNCHANGED <<properties, m_ttsAdapter, created, m_audioOutput,
                   adapterAtSpeak, adapterTerms, termCalls, life, failure,
                   qvars, wvars, bvars>>

\* lines 601, 607, 613, 619: SpxCreateObjectWithSite returns a new adapter
\* (ok) or nullptr, and the result is assigned to m_ttsAdapter.  The
\* assignment takes no lock: made while another thread is inside
\* EnsureTtsEngineAdapter it is a data race, whose outcome is the assignment
\* or a failure of the process.
InitializeTtsEngineAdapter_Create(t, ok, crash) ==
    /\ epc[t] = "new"
    /\ failure = "none"
    /\ crash => \E o \in Threads : o # t /\ epc[o] \in InInit
    /\ LET v == stage[t]
           i == StageIndex(v)
       IN  /\ m_ttsAdapter' = IF ok THEN v ELSE "null"
           /\ created' = IF ok THEN created + 1 ELSE created
           /\ epc' = [epc EXCEPT ![t] = IF i < Len(Variants) THEN "if" ELSE "check"]
           /\ stage' = [stage EXCEPT ![t] = IF i < Len(Variants) THEN Variants[i + 1] ELSE "none"]
    /\ failure' = IF crash THEN "Init" ELSE "none"
    /\ UNCHANGED <<properties, attempts, m_audioOutput,
                   adapterAtSpeak, adapterTerms, termCalls, life,
                   qvars, wvars, bvars>>

\* line 624: SPX_IFTRUE_THROW_HR(m_ttsAdapter == nullptr, SPXERR_NOT_FOUND).
InitializeTtsEngineAdapter_Throw(t) ==
    /\ epc[t] = "check"
    /\ failure = "none"
    /\ epc' = [epc EXCEPT ![t] = IF m_ttsAdapter = "null" THEN "threw" ELSE "done"]
    /\ UNCHANGED <<properties, m_ttsAdapter, stage, attempts, created, m_audioOutput,
                   adapterAtSpeak, adapterTerms, termCalls, life, failure,
                   qvars, wvars, bvars>>

\* lines 74-78: SetOutput stores the output and hands it to the adapter
\* through m_ttsAdapter, without a null test: with no adapter the call is
\* undefined, and fails or goes on.
SetOutput(crash) ==
    /\ Usable
    /\ NoInitRunning
    /\ crash => m_ttsAdapter = "null"
    /\ m_audioOutput' = "open"
    /\ failure' = IF crash THEN "SetOutput" ELSE "none"
    /\ UNCHANGED <<properties, m_ttsAdapter, epc, stage, attempts, created,
                   adapterAtSpeak, adapterTerms, termCalls, life,
                   qvars, wvars, bvars>>

\* lines 80-99 (and 126-147) for a request with no other request in flight:
\* it is pushed, admitted at once, fires Started and then calls
\* m_ttsAdapter->Speak and m_audioOutput->WaitUntilDone.  Nothing on the way
\* tests or sets m_ttsAdapter; a call through a null pointer is undefined,
\* and fails or goes on.
SpeakCall(crash) ==
    /\ Usable
    /\ NoInitRunning
    /\ crash => (m_ttsAdapter = "null" \/ m_audioOutput = "null")
    /\ adapterAtSpeak' = IF m_ttsAdapter = "null" THEN "null" ELSE "present"
    /\ failure' = IF crash THEN "Speak" ELSE "none"
    /\ UNCHANGED <<properties, m_ttsAdapter, epc, stage, attempts, created, m_audioOutput,
                   adapterTerms, termCalls, life,
                   qvars, wvars, bvars>>

\* The output's Close(): closing a closed output changes nothing.
OutputClose(output) == "closed"

\* lines 182-185: Close calls m_audioOutput->Close() without a null test.
Close(crash) ==
    /\ Usable
    /\ NoInitRunning
    /\ crash => m_audioOutput = "null"
    /\ m_audioOutput' = IF m_audioOutput = "null" THEN "null" ELSE OutputClose(m_audioOutput)
    /\ failure' = IF crash THEN "Close" ELSE "none"
    /\ UNCHANGED <<properties, m_ttsAdapter, epc, stage, attempts, created,
                   adapterAtSpeak, adapterTerms, termCalls, life,
                   qvars, wvars, bvars>>

\* lines 627-633: ReleaseTtsEngineAdapter calls m_ttsAdapter->Term() when
\* m_ttsAdapter is not null; it leaves m_ttsAdapter as it is.  The value is
\* the number of Term() calls the adapter has had after it.
ReleaseTtsEngineAdapter(adapter, terms) == IF adapter # "null" THEN terms + 1 ELSE terms

\* lines 52-57: the body of Term: ReleaseTtsEngineAdapter, then
\* m_audioOutput->Close() without a null test (undefined with no output:
\* the call fails or goes on), then SpxTermAndClear(m_siteKeepAlive).
TermBody(crash) ==
    /\ crash => m_audioOutput = "null"
    /\ adapterTerms' = ReleaseTtsEngineAdapter(m_ttsAdapter, adapterTerms)
    /\ m_audioOutput' = IF m_audioOutput = "null" THEN "null" ELSE OutputClose(m_audioOutput)
    /\ failure' = IF crash THEN "Term" ELSE "none"

\* lines 52-57: an explicit Term call.
Term(crash) ==
    /\ Usable
    /\ NoInitRunning
    /\ termCalls < MaxTermCalls
    /\ termCalls' = termCalls + 1
    /\ TermBody(crash)
    /\ UNCHANGED <<properties, m_ttsAdapter, epc, stage, attempts, created,
                   adapterAtSpeak, life, qvars, wvars, bvars>>

\* lines 32-37: the destructor calls Term.
Destructor(crash) ==
    /\ Usable
    /\ NoInitRunning
    /\ life' = "destroyed"
    /\ TermBody(crash)
    /\ UNCHANGED <<properties, m_ttsAdapter, epc, stage, attempts, created,
                   adapterAtSpeak, termCalls, qvars, wvars, bvars>>

\* One Init call, for every endpoint protocol and every setting of the flags.
ANext ==
    \/ \E scheme \in Schemes, rest, usp, mock, local \in BOOLEAN :
          SetProperties(scheme, rest, usp, mock, local)
    \/ CallInit(1)
    \/ EnsureTtsEngineAdapter(1)
    \/ InitializeTtsEngineAdapter_If(1)
    \/ \E ok \in BOOLEAN : InitializeTtsEngineAdapter_Create(1, ok, FALSE)
    \/ InitializeTtsEngineAdapter_Throw(1)

ASpec == Init /\ [][ANext]_vars

\* Init calls made by several threads.
ENext ==
    \/ \E scheme \in Schemes, rest, usp, mock, local \in BOOLEAN :
          SetProperties(scheme, rest, usp, mock, local)
    \/ \E t \in Threads : CallInit(t)
    \/ \E t \in Threads : EnsureTtsEngineAdapter(t)
    \/ \E t \in Threads : InitializeTtsEngineAdapter_If(t)
    \/ \E t \in Threads, ok, crash \in BOOLEAN : InitializeTtsEngineAdapter_Create(t, ok, crash)
    \/ \E t \in Threads : InitializeTtsEngineAdapter_Throw(t)

ESpec == Init /\ [][ENext]_vars

\* The life of one synthesizer: the calls of its owner, one after the
\* other, in any order, until the destructor.
LNext ==
    \/ \E scheme \in Schemes, rest, usp, mock, local \in BOOLEAN :
          SetProperties(scheme, rest, usp, mock, local)
    \/ CallInit(1)
    \/ EnsureTtsEngineAdapter(1)
    \/ InitializeTtsEngineAdapter_If(1)
    \/ \E ok \in BOOLEAN : InitializeTtsEngineAdapter_Create(1, ok, FALSE)
    \/ InitializeTtsEngineAdapter_Throw(1)
    \/ \E crash \in BOOLEAN : SetOutput(crash)
    \/ \E crash \in BOOLEAN : SpeakCall(crash)
    \/ \E crash \in BOOLEAN : Close(crash)
    \/ \E crash \in BOOLEAN : Term(crash)
    \/ \E crash \in BOOLEAN : Destructor(crash)

LSpec == Init /\ [][LNext]_vars

\* ------------------------------------------------------------------ claims
TerminalKinds == {"Completed", "Canceled"}
Terminals(r) == SelectSeq(fired[r], LAMBDA k : k \in TerminalKinds)
TerminalFired(r) == Len(Terminals(r)) > 0
StartedFired(r) == Count(fired[r], "Started") > 0

\* C1: at most one request at a time is between its return from
\* WaitUntilRequestInFrontOfQueue and its PopRequestFromQueue, so no two
\* requests' adapter / WaitUntilDone windows overlap.
C1_OneActiveRequest ==
    \A r1, r2 \in Req : (Active(r1) /\ Active(r2)) => r1 = r2

\* C1 witness: a StartSpeaking-family request is inside the adapter on its
\* background task while a request of another convention is blocked on m_cv.
C1_Witness ==
    \E r1, r2 \in Req :
        /\ pc[r1] = "inAdapter" /\ conv[r1] \in StartSpeakingLike
        /\ pc[r2] = "blocked" /\ conv[r2] \notin StartSpeakingLike

\* C2: the Started events fire in the order in which the ids were pushed:
\* the sequence of started requests is a prefix of the sequence of pushes.
C2_StartedInPushOrder == IsPrefix(startedOrder, pushOrder)

\* C2 witness: every request has started, and the ids were pushed in an
\* order other than the order of the calls.
C2_Witness ==
    /\ Len(startedOrder) = NumReq
    /\ pushOrder[1] # 1

\* C3: every request that has entered WaitUntilRequestInFrontOfQueue
\* eventually returns from it (here every request ahead of it that is
\* admitted does reach PopRequestFromQueue, by fairness).
C3_WaiterEventuallyAdmitted ==
    \A r \in Req : (pc[r] \in WaitingPcs) ~> (pc[r] \in ActivePcs)

\* C4: a Speak called after StartSpeakingAsync returned its CSpxAsyncOp fires
\* its Started event only after the StartSpeakingAsync request has fired its
\* terminal event and popped itself.
C4_SpeakWaitsForStartSpeakingAsync ==
    \A a, s \in Req :
        (/\ a < s
         /\ conv[a] = "StartSpeakingAsync"
         /\ conv[s] = "Speak"
         /\ StartedFired(s))
        => (TerminalFired(a) /\ pc[a] = "done")

\* C5: the terminal event of a StartSpeaking request is never fired before
\* the StartSpeaking call has returned.
C5_ReturnsBeforeTerminal ==
    \A r \in Req :
        (conv[r] \in StartSpeakingLike /\ TerminalFired(r)) => ssFrame[r] = "returned"

\* C6: whenever callbacks of a request are executing (Started, Synthesizing
\* or terminal), that request is at the head of m_requestQueue, and no
\* callbacks of another request are executing.
C6_CallbacksSerialized ==
    /\ \A r \in Req :
          pc[r] \in FiringPcs => (Len(m_requestQueue) > 0 /\ m_requestQueue[1] = r)
    /\ \A r1, r2 \in Req :
          (pc[r1] \in FiringPcs /\ pc[r2] \in FiringPcs) => r1 = r2

\* C6 witness: Synthesizing callbacks run on the background task of a
\* StartSpeaking request whose caller has returned, with another request
\* queued behind it.
C6_Witness ==
    \E r1, r2 \in Req :
        /\ pc[r1] = "inSynthesizing" /\ ssFrame[r1] = "returned"
        /\ pc[r2] \in WaitingPcs

\* C8: a request fires at most one terminal event, none before the adapter
\* has returned, exactly one by the time it pops, of the kind that matches
\* the reason of the adapter's result.
C8_OneMatchingTerminal ==
    \A r \in Req :
        /\ Len(Terminals(r)) <= 1
        /\ adapterReason[r] = "none" => Len(Terminals(r)) = 0
        /\ pc[r] \in {"inTerminal", "done"} => Len(Terminals(r)) = 1
        /\ Len(Terminals(r)) = 1 =>
              \/ adapterReason[r] = "SynthesizingAudioCompleted" /\ Terminals(r)[1] = "Completed"
              \/ adapterReason[r] = "Canceled" /\ Terminals(r)[1] = "Canceled"

\* C8 witness: one request has finished Completed and another Canceled.
C8_Witness ==
    \E r1, r2 \in Req :
        /\ pc[r1] = "done" /\ fired[r1][Len(fired[r1])] = "Completed"
        /\ pc[r2] = "done" /\ fired[r2][Len(fired[r2])] = "Canceled"

\* C7: the bytes the sink has accepted, together with the chunk a Write in
\* progress has yet to hand to the sink, never exceed the bytes announced
\* through Synthesizing events, and Write returns the sink's count.
C7_SinkNeverAheadOfEvents ==
    /\ sinkBytes + (IF wpc = "fired" THEN chunk ELSE 0) <= notifiedBytes
    /\ writeResult = sinkResult

\* C7 witness: a second Write has fired its event and not yet written to the
\* sink, after a Write of which the sink accepted a part.
C7_Witness ==
    /\ wpc = "fired" /\ chunk > 0 /\ writes >= 2
    /\ 0 < sinkBytes /\ sinkBytes + chunk < notifiedBytes
    /\ writeResult > 0

\* C9: the entries a fire iterates are the content its kind's list had at
\* one instant while the list was being copied.
C9_FireIteratesSnapshot ==
    firePc \in {"signal", "done"} => ObjectsOf(copy) \in seen

\* A Connect step for an identity that has an entry: the entry's callbacks grow.
IsConnectToExisting(k, o) ==
    /\ o \in ObjectsOf(events[k])
    /\ CallbacksOf(events[k], o) \subseteq CallbacksOf(events'[k], o)
    /\ CallbacksOf(events'[k], o) # CallbacksOf(events[k], o)

\* C10: a Connect under an identity that has an entry adds the callback to
\* that entry and makes no new entry, and a fire that no Connect or
\* Disconnect disturbs invokes every callback of every identity, so both
\* callbacks connected under one identity.
C10_SecondCallbackJoinsSignal ==
    /\ [][\A k \in Kinds, o \in Objects :
            IsConnectToExisting(k, o) =>
                /\ Len(events'[k]) = Len(events[k])
                /\ \A i \in 1..Len(events[k]) : events'[k][i].object = events[k][i].object
                /\ \E c \in Callbacks :
                      CallbacksOf(events'[k], o) = CallbacksOf(events[k], o) \cup {c}]_vars
    /\ [](firePc = "done" /\ quiet =>
            invoked = {oc \in Objects \X Callbacks :
                          oc[2] \in CallbacksOf(events[fireKind], oc[1])})

\* C10 witness: an undisturbed fire has invoked two callbacks connected
\* under one identity, which has a single entry.
C10_Witness ==
    /\ firePc = "done" /\ quiet
    /\ \E o \in Objects :
          /\ {<<o, 1>>, <<o, 2>>} \subseteq invoked
          /\ Cardinality({i \in 1..Len(events[fireKind]) : events[fireKind][i].object = o}) = 1

\* The variant the selection order names for the properties: the first of
\* REST, USP, mock, local whose condition holds, REST when none does.
FirstMatchingVariant(p) ==
    IF p.scheme = "HTTP" \/ p.rest THEN "Rest"
    ELSE IF p.scheme = "WebSocket" \/ p.usp THEN "Usp"
    ELSE IF p.mock THEN "Mock"
    ELSE IF p.local THEN "Local"
    ELSE "Rest"

\* C12: for every endpoint protocol and every setting of the four flags,
\* the first variant InitializeTtsEngineAdapter creates is the first of
\* REST, USP, mock, local whose condition holds, REST when none holds; it
\* always creates one; and when that creation yields an adapter, it is the
\* only variant created and the one m_ttsAdapter holds.
C12_SelectsFirstMatchingVariant ==
    /\ Len(attempts[1]) >= 1 => attempts[1][1] = FirstMatchingVariant(properties)
    /\ epc[1] \in {"check", "done", "threw"} => Len(attempts[1]) >= 1
    /\ (Len(attempts[1]) >= 1 /\ m_ttsAdapter = attempts[1][1]) =>
          (attempts[1] = <<FirstMatchingVariant(properties)>> /\ created = 1)

\* C12 witness: with an empty endpoint and the mock and local flags set,
\* Init has finished having created the mock adapter and nothing else.
C12_Witness ==
    /\ epc[1] = "done"
    /\ properties = [scheme |-> "absent", rest |-> FALSE, usp |-> FALSE,
                     mock |-> TRUE, local |-> TRUE]
    /\ attempts[1] = <<"Mock">>
    /\ m_ttsAdapter = "Mock"

\* C11: a Disconnect of a callback that is not connected under the identity
\* leaves the kind's list and the callbacks of every signal as they were,
\* whether the identity has no pair or a pair holding other callbacks.
C11_StrangerDisconnectIsNoOp ==
    [][\A k \in Kinds, o \in Objects, c \in Callbacks :
          (c \notin CallbacksOf(events[k], o) /\ DisconnectCallback(k, o, c))
              => events' = events]_vars

\* C11 witness: Disconnect calls have met both cases, an identity with no
\* pair and a pair that does not hold the callback, and none has
\* disconnected anything; the list holds the pair with its other callback.
C11_Witness ==
    /\ disconnectsMet = {"noEntry", "notConnected"}
    /\ ops = 3
    /\ Len(events[busKind]) = 1
    /\ Cardinality(events[busKind][1].cbs) = 1

\* C18: the list of a kind holds at most one pair per identity and no pair
\* whose signal has no callbacks; a step that leaves an identity without
\* callbacks removes its pair; and a step changes the pairs of one identity
\* at most, leaving the pairs of the others as they were.
C18_OneConnectedEntryPerIdentity ==
    /\ [](\A k \in Kinds :
            /\ \A i, j \in 1..Len(events[k]) :
                  events[k][i].object = events[k][j].object => i = j
            /\ \A i \in 1..Len(events[k]) : SignalIsConnected(events[k][i].cbs))
    /\ [][\A k \in Kinds :
            /\ \A o \in Objects :
                  (CallbacksOf(events'[k], o) = {}) => o \notin ObjectsOf(events'[k])
            /\ \A o1, o2 \in Objects :
                  (/\ EntriesOf(events'[k], o1) # EntriesOf(events[k], o1)
                   /\ EntriesOf(events'[k], o2) # EntriesOf(events[k], o2)) => o1 = o2]_vars

\* C18 witness: a Disconnect has emptied the signal of an identity; the
\* list holds one pair, with its callbacks, and an identity has no pair.
C18_Witness ==
    /\ "connected" \in disconnectsMet
    /\ ops = 3
    /\ Len(events[busKind]) = 1
    /\ \E o \in Objects : o \notin ObjectsOf(events[busKind])

\* C13: InitializeTtsEngineAdapter calls SpxCreateObjectWithSite for one
\* variant at most: after the creation of the selected variant has yielded
\* no adapter, no other variant is created in its place.
C13_NoFallbackAfterSelection == Len(attempts[1]) <= 1

\* C14: m_ttsAdapter->Speak is never called while m_ttsAdapter is null: a
\* Speak-family call made with no adapter constructs it first.
C14_AdapterPresentAtSpeak == adapterAtSpeak # "null"

\* C15: over the life of a synthesizer the adapter's Term() is called at
\* most once, and exactly once by the time the destructor has run on a
\* synthesizer that holds an adapter.
C15_AdapterTermOnce ==
    /\ adapterTerms <= 1
    /\ (life = "destroyed" /\ failure = "none" /\ m_ttsAdapter # "null") => adapterTerms = 1

\* C16: Term never fails, whether it is called explicitly or by the
\* destructor, with or without an adapter, an output, or an open output.
C16_TermNeverFails == failure # "Term"

\* C19: whatever the interleaving of the threads inside
\* EnsureTtsEngineAdapter, at most one adapter instance is created.
C19_ConstructOnce == created <= 1

\* The id of r is in m_requestQueue.
InQueue(r) == \E i \in 1..Len(m_requestQueue) : m_requestQueue[i] = r
Pushed(r) == \E i \in 1..Len(pushOrder) : pushOrder[i] = r
\* Positions after the Started event, after m_ttsAdapter->Speak has
\* returned, and after the terminal event.
AfterStartedPcs == {"inStarted", "inAdapter", "inSynthesizing", "drain", "inTerminal", "done"}
AfterAdapterPcs == {"drain", "inTerminal", "done"}
AfterTerminalPcs == {"inTerminal", "done"}

\* C17: for every request, under each convention, the steps happen in the
\* order push, wait, Started, adapter's Speak returned, WaitUntilDone
\* returned, terminal event, pop: its events are Started, then
\* Synthesizing events, then one terminal event; each is fired only at its
\* place in that order; and the id is in the queue from the push, and at
\* its head from the end of the wait, until the pop, which comes after the
\* terminal event.
C17_LifecycleOrder ==
    \A r \in Req :
        /\ pc[r] \in (WaitingPcs \cup ActivePcs) <=> InQueue(r)
        /\ InQueue(r) => Pushed(r)
        /\ pc[r] \in ActivePcs => (Len(m_requestQueue) > 0 /\ Head(m_requestQueue) = r)
        /\ StartedFired(r) <=> pc[r] \in AfterStartedPcs
        /\ adapterReason[r] # "none" <=> pc[r] \in AfterAdapterPcs
        /\ TerminalFired(r) <=> pc[r] \in AfterTerminalPcs
        /\ pc[r] = "done" <=> (Pushed(r) /\ ~InQueue(r))
        /\ \A i \in 1..Len(fired[r]) :
              /\ fired[r][i] = "Started" <=> i = 1
              /\ fired[r][i] \in TerminalKinds => i = Len(fired[r])

\* C17 witness: the background task of a StartSpeaking request whose caller
\* has returned has fired Started, a Synthesizing event and the terminal
\* event and has not popped yet; its id is at the head, with the id of a
\* waiting request behind it.
C17_Witness ==
    \E r1, r2 \in Req :
        /\ conv[r1] = "StartSpeaking" /\ ssFrame[r1] = "returned"
        /\ pc[r1] = "inTerminal" /\ Len(fired[r1]) = 3
        /\ m_requestQueue = <<r1, r2>>
        /\ pc[r2] = "blocked"

\* C20: when a waiter evaluates m_requestQueue.front() the queue is not
\* empty and holds the waiter's id; when a request is about to run
\* PopRequestFromQueue the queue is not empty and its head is that
\* request's id; and no request's id has left the queue before that request
\* popped: the ids in the queue are, once each, those of the requests that
\* have pushed and not popped.
C20_FrontAndPopOnOwnEntry ==
    /\ \A r \in Req :
          /\ pc[r] = "pred" => (Len(m_requestQueue) > 0 /\ InQueue(r))
          /\ pc[r] = "inTerminal" => (Len(m_requestQueue) > 0 /\ m_requestQueue[1] = r)
          /\ (Pushed(r) /\ pc[r] # "done") => Count(m_requestQueue, r) = 1
          /\ pc[r] = "done" => Count(m_requestQueue, r) = 0
    /\ Len(m_requestQueue) <= Len(pushOrder)

\* C20 witness: a waiter evaluates the predicate on a queue that holds its
\* id behind the id of a request that is about to pop.
C20_Witness ==
    \E r1, r2 \in Req :
        /\ pc[r1] = "inTerminal" /\ pc[r2] = "pred"
        /\ m_requestQueue = <<r1, r2>>

\* The conventions whose call returns only after the request was admitted.
Blocking == {"Speak", "StartSpeaking"}

\* C21: a Speak or StartSpeaking call made from inside a subscriber
\* callback of request r is never admitted and never returns: its request
\* stays before or inside WaitUntilRequestInFrontOfQueue, with its id, once
\* pushed, behind r's at the head; and r stays inside that event, so it
\* never reaches the end of PopRequestFromQueue.
C21_NestedBlockingCallDeadlocks ==
    \A n, r \in Req :
        (parent[n] = r /\ conv[n] \in Blocking) =>
            /\ pc[n] \in ({"push"} \cup WaitingPcs)
            /\ ~apiReturned[n]
            /\ fired[n] = <<>>
            /\ pc[r] \in FiringPcs
            /\ Len(m_requestQueue) > 0 /\ m_requestQueue[1] = r
            /\ \A x \in Req : pc[x] \in ActivePcs => x = r

\* C21 witness: a StartSpeaking call made by a callback of the terminal
\* event of a Speak request is blocked on m_cv with its id behind that
\* request's id.
C21_Witness ==
    \E n, r \in Req :
        /\ parent[n] = r /\ conv[n] = "StartSpeaking" /\ conv[r] = "Speak"
        /\ pc[n] = "blocked" /\ pc[r] = "inTerminal"
        /\ m_requestQueue = <<r, n>>

====
